---------------------------- MODULE Spec2Model ----------------------------
(***************************************************************************)
(* Model of rpigeneui.py: the script reads the Raspberry Pi information    *)
(* file, extracts the Serial and Revision fields, assembles the LoRaWAN    *)
(* EUI "02RRRRRRNNNNNNNN", prints it and exits.                            *)
(*                                                                         *)
(* A Python str is modelled as a sequence of one-character strings.        *)
(***************************************************************************)
EXTENDS Integers, Sequences, FiniteSets, TLC

VARIABLES
    source,             \* the information file: what open()/read() will do
    pc,                 \* position of the run
    caller,             \* who called generate_eui: "main" or "direct"
    rpi_info,           \* the text handed to generate_eui / read by main
    rpi_serial_number,  \* local of generate_eui
    rpi_revision,       \* local of generate_eui
    eui,                \* local of generate_eui (the assembled string)
    ret,                \* value returned by generate_eui (main's eui)
    stdout,             \* lines printed so far
    exit_status,        \* <<>> while running, <<status>> once the process ended
    uncaught,           \* exception that left the called code uncaught, or ""
    gen_ran,            \* generate_eui has been entered
    interrupted         \* where a KeyboardInterrupt was delivered, "" when none

vars == <<source, pc, caller, rpi_info, rpi_serial_number, rpi_revision, eui,
          ret, stdout, exit_status, uncaught, gen_ran, interrupted>>

-----------------------------------------------------------------------------
(* Constants of the script *)

RPI_SERIAL_PATTERN == <<"S","e","r","i","a","l">>
RPI_REVISION_PATTERN == <<"R","e","v","i","s","i","o","n">>

EUI_FIRST_OCTECT_LOCAL_ADMINISTRED == <<"0","2">>

INVALID_EUI ==
    <<"F","F","F","F","F","F","F","F","F","F","F","F","F","F","F","F">>

EUI_CHARS_LENGTH == 16

RC_OK == 0
RC_FAIL == -1

\* exit status of a process that dies of an uncaught exception
UNCAUGHT_STATUS == 1

-----------------------------------------------------------------------------
(* str operations used by the script *)

\* pat in line
Contains(line, pat) ==
    \E i \in 1..(Len(line) - Len(pat) + 1) :
        SubSeq(line, i, i + Len(pat) - 1) = pat

\* index of the first occurrence of sep in s, 0 when there is none
Find(s, sep) ==
    IF Contains(s, sep)
    THEN CHOOSE i \in 1..(Len(s) - Len(sep) + 1) :
            /\ SubSeq(s, i, i + Len(sep) - 1) = sep
            /\ \A j \in 1..(i - 1) : SubSeq(s, j, j + Len(sep) - 1) # sep
    ELSE 0

\* s.split(sep, 1): the list of one or two parts
Split1(s, sep) ==
    LET i == Find(s, sep)
    IN  IF i = 0
        THEN <<s>>
        ELSE <<SubSeq(s, 1, i - 1), SubSeq(s, i + Len(sep), Len(s))>>

SEPARATOR == <<":", " ">>

\* s.splitlines(): "\n", "\r" and "\r\n" end a line; a trailing line break
\* opens no further line
RECURSIVE SplitFrom(_, _, _, _)
SplitFrom(s, i, cur, acc) ==
    IF i > Len(s)
    THEN IF cur = <<>> THEN acc ELSE Append(acc, cur)
    ELSE IF s[i] = "\r" /\ i < Len(s) /\ s[i + 1] = "\n"
    THEN SplitFrom(s, i + 2, <<>>, Append(acc, cur))
    ELSE IF s[i] \in {"\n", "\r"}
    THEN SplitFrom(s, i + 1, <<>>, Append(acc, cur))
    ELSE SplitFrom(s, i + 1, Append(cur, s[i]), acc)

splitlines(s) == SplitFrom(s, 1, <<>>, <<>>)

LowerLetters ==
    <<"a","b","c","d","e","f","g","h","i","j","k","l","m",
      "n","o","p","q","r","s","t","u","v","w","x","y","z">>
UpperLetters ==
    <<"A","B","C","D","E","F","G","H","I","J","K","L","M",
      "N","O","P","Q","R","S","T","U","V","W","X","Y","Z">>

\* c.upper() of one character: the full Unicode case mapping, under which the
\* uppercase of one character can be two characters (sharp s -> "SS")
UpperChar(c) ==
    IF \E k \in 1..26 : LowerLetters[k] = c
    THEN <<UpperLetters[CHOOSE k \in 1..26 : LowerLetters[k] = c]>>
    ELSE IF c = "ß" THEN <<"S","S">>
    ELSE <<c>>

RECURSIVE upper(_)
upper(s) == IF s = <<>> THEN <<>> ELSE UpperChar(Head(s)) \o upper(Tail(s))

-----------------------------------------------------------------------------
(* Field extraction *)

\* the for loop of get_rpi_serial_number / get_rpi_revision over the lines
\* from index i on, with cur the value found so far.  The result is a record:
\* exc names the exception raised ("" when none), val the value returned.
RECURSIVE ScanLines(_, _, _, _)
ScanLines(lines, i, pattern, cur) ==
    IF i > Len(lines)
    THEN [exc |-> "", val |-> cur]
    ELSE IF Contains(lines[i], pattern)
    THEN LET parts == Split1(lines[i], SEPARATOR)
         IN  IF Len(parts) < 2
             THEN [exc |-> "IndexError", val |-> <<>>]
             ELSE ScanLines(lines, i + 1, pattern, parts[2])
    ELSE ScanLines(lines, i + 1, pattern, cur)

get_rpi_serial_number(info) ==
    ScanLines(splitlines(info), 1, RPI_SERIAL_PATTERN, <<>>)

get_rpi_revision(info) ==
    ScanLines(splitlines(info), 1, RPI_REVISION_PATTERN, <<>>)

-----------------------------------------------------------------------------
(* Validation and encoding steps of generate_eui *)

SerialLengthOk(s) == ~((Len(s) # 16) /\ (Len(s) # 8))

RevisionLengthOk(r) == ~(Len(r) # 6)

C1KeepLeading(s) == IF Len(s) = 16 THEN SubSeq(s, 1, 8) ELSE s
\* if len == 16: rpi_serial_number[8:]
Normalize(s) == IF Len(s) = 16 THEN SubSeq(s, 9, Len(s)) ELSE s

\* "{}{}{}".format(EUI_FIRST_OCTECT_LOCAL_ADMINISTRED, rev, serial)
Format(rev, serial) == EUI_FIRST_OCTECT_LOCAL_ADMINISTRED \o rev \o serial

-----------------------------------------------------------------------------
(* Exceptions *)

\* the classes derived from Exception among those the run can meet;
\* KeyboardInterrupt derives from BaseException only
ExceptionSubclasses ==
    {"FileNotFoundError", "PermissionError", "OSError", "UnicodeDecodeError",
     "IndexError"}

C7CatchesNotFoundOnly(e) == e = "FileNotFoundError"
C8CatchesEverything(e) == TRUE
\* does the clause "except Exception" of file_read_text catch e
ExceptExceptionCatches(e) == e \in ExceptionSubclasses

\* file_read_text: raised is the exception open()/read() raises inside the
\* try block ("" when none), content the text of the file
file_read_text(raised, content) ==
    IF raised = ""
    THEN [exc |-> "", val |-> content]
    ELSE IF ExceptExceptionCatches(raised)
    THEN [exc |-> "", val |-> <<>>]
    ELSE [exc |-> raised, val |-> <<>>]

\* sys_exit(return_code): the process ends, its status is the low byte
program_exit(return_code) ==
    /\ pc' = "terminated"
    /\ exit_status' = <<return_code % 256>>

\* an exception leaves the code that runs at pc.  Called from main it meets
\* the try/except KeyboardInterrupt of the script's last lines: an interrupt
\* enters the handler, anything else ends the process with a traceback.
Propagate(e) ==
    IF caller = "direct"
    THEN /\ pc' = "raised"
         /\ uncaught' = e
         /\ UNCHANGED exit_status
    ELSE IF e = "KeyboardInterrupt"
    THEN /\ pc' = "kbd_handler"
         /\ UNCHANGED <<uncaught, exit_status>>
    ELSE /\ pc' = "terminated"
         /\ uncaught' = e
         /\ exit_status' = <<UNCAUGHT_STATUS>>

\* generate_eui returns v to its caller
Return(v) ==
    /\ ret' = v
    /\ pc' = IF caller = "main" THEN "main_compare" ELSE "returned"

-----------------------------------------------------------------------------
(* Input texts *)

MaxLines == 2

SerialLabel == RPI_SERIAL_PATTERN \o <<"\t", "\t", ":", " ">>
RevisionLabel == RPI_REVISION_PATTERN \o <<"\t", ":", " ">>

SerialValues ==
    { <<"9","0","A","B","C","D","E","F">>,
      <<"1","2","3","4","5","6","7","8","9","0","a","b","c","D","E","F">>,
      <<"0","A","B","C","D","E","F">>,
      <<>>,
      <<"9","ß","A","B","C","D","E","F">>,
      <<"9","0","A","B","C","D","E","G">>,
      <<"F","F","F","F","F","F","F","F">> }

RevisionValues ==
    { <<"a","0","3","1","4","0">>,
      <<"A","0","3","1","4">>,
      <<"A","0","3","1","4","0","0">>,
      <<"F","F","F","F","F","F">>,
      <<"b",":"," ","2","7","e">>,
      <<>> }

OtherLines ==
    { <<>>,
      <<"M","o","d","e","l","\t",":"," ","P","i">>,
      <<"H","a","r","d","w","a","r","e","\t",":"," ">> \o RPI_SERIAL_PATTERN \o <<"N","o">>,
      <<"x",":"," ">> \o SerialLabel \o <<"9","0","A","B","C","D","E","F">>,
      RPI_SERIAL_PATTERN,
      RPI_REVISION_PATTERN \o <<":","a","0","3","1","4","0">> }

Lines ==
    {SerialLabel \o v : v \in SerialValues}
      \cup {RevisionLabel \o v : v \in RevisionValues}
      \cup OtherLines

RECURSIVE Join(_)
Join(ls) ==
    IF ls = <<>> THEN <<>>
    ELSE IF Len(ls) = 1 THEN ls[1]
    ELSE ls[1] \o <<"\n">> \o Join(Tail(ls))

Texts == UNION {{Join(ls) : ls \in [1..n -> Lines]} : n \in 0..MaxLines}

ReadErrors ==
    {"FileNotFoundError", "PermissionError", "OSError", "UnicodeDecodeError"}

Sources ==
    [error : {""}, content : Texts] \cup [error : ReadErrors, content : {<<>>}]

-----------------------------------------------------------------------------
(* generate_eui, one action per step *)

GenSerial ==
    /\ pc = "gen_serial"
    /\ LET r == get_rpi_serial_number(rpi_info)
       IN  IF r.exc # ""
           THEN /\ Propagate(r.exc)
                /\ UNCHANGED <<rpi_serial_number>>
           ELSE /\ rpi_serial_number' = r.val
                /\ pc' = "gen_revision"
                /\ UNCHANGED <<uncaught, exit_status>>
    /\ UNCHANGED <<source, caller, rpi_info, rpi_revision, eui, ret, stdout,
                   gen_ran, interrupted>>

GenRevision ==
    /\ pc = "gen_revision"
    /\ LET r == get_rpi_revision(rpi_info)
       IN  IF r.exc # ""
           THEN /\ Propagate(r.exc)
                /\ UNCHANGED <<rpi_revision>>
           ELSE /\ rpi_revision' = r.val
                /\ pc' = "gen_check"
                /\ UNCHANGED <<uncaught, exit_status>>
    /\ UNCHANGED <<source, caller, rpi_info, rpi_serial_number, eui, ret,
                   stdout, gen_ran, interrupted>>

GenCheckLengths ==
    /\ pc = "gen_check"
    /\ IF ~SerialLengthOk(rpi_serial_number)
       THEN Return(INVALID_EUI)
       ELSE IF ~RevisionLengthOk(rpi_revision)
       THEN Return(INVALID_EUI)
       ELSE pc' = "gen_normalize" /\ UNCHANGED ret
    /\ UNCHANGED <<source, caller, rpi_info, rpi_serial_number, rpi_revision,
                   eui, stdout, exit_status, uncaught, gen_ran, interrupted>>

GenNormalize ==
    /\ pc = "gen_normalize"
    /\ rpi_serial_number' = Normalize(rpi_serial_number)
    /\ pc' = "gen_assemble"
    /\ UNCHANGED <<source, caller, rpi_info, rpi_revision, eui, ret, stdout,
                   exit_status, uncaught, gen_ran, interrupted>>

GenAssemble ==
    /\ pc = "gen_assemble"
    /\ eui' = Format(rpi_revision, rpi_serial_number)
    /\ pc' = "gen_final"
    /\ UNCHANGED <<source, caller, rpi_info, rpi_serial_number, rpi_revision,
                   ret, stdout, exit_status, uncaught, gen_ran, interrupted>>

GenFinalCheck ==
    /\ pc = "gen_final"
    /\ IF Len(eui) # EUI_CHARS_LENGTH
       THEN Return(INVALID_EUI)
       ELSE Return(upper(eui))
    /\ UNCHANGED <<source, caller, rpi_info, rpi_serial_number, rpi_revision,
                   eui, stdout, exit_status, uncaught, gen_ran, interrupted>>

GenNext ==
    \/ GenSerial
    \/ GenRevision
    \/ GenCheckLengths
    \/ GenNormalize
    \/ GenAssemble
    \/ GenFinalCheck

-----------------------------------------------------------------------------
(* main and the script's last lines *)

MainRead ==
    /\ pc = "main_read"
    /\ LET r == file_read_text(source.error, source.content)
       IN  IF r.exc # ""
           THEN Propagate(r.exc) /\ UNCHANGED rpi_info
           ELSE /\ rpi_info' = r.val
                /\ pc' = "main_check"
                /\ UNCHANGED <<uncaught, exit_status>>
    /\ UNCHANGED <<source, caller, rpi_serial_number, rpi_revision, eui, ret,
                   stdout, gen_ran, interrupted>>

MainCheckInfo ==
    /\ pc = "main_check"
    /\ IF rpi_info = <<>>
       THEN /\ stdout' = Append(stdout, INVALID_EUI)
            /\ pc' = "main_exit_fail_empty"
            /\ UNCHANGED gen_ran
       ELSE /\ pc' = "gen_serial"
            /\ gen_ran' = TRUE
            /\ UNCHANGED stdout
    /\ UNCHANGED <<source, caller, rpi_info, rpi_serial_number, rpi_revision,
                   eui, ret, exit_status, uncaught, interrupted>>

MainCompare ==
    /\ pc = "main_compare"
    /\ IF ret = INVALID_EUI
       THEN /\ stdout' = Append(stdout, INVALID_EUI)
            /\ pc' = "main_exit_fail_invalid"
       ELSE /\ stdout' = Append(stdout, ret)
            /\ pc' = "main_exit_ok"
    /\ UNCHANGED <<source, caller, rpi_info, rpi_serial_number, rpi_revision,
                   eui, ret, exit_status, uncaught, gen_ran, interrupted>>

MainExitFail ==
    /\ pc \in {"main_exit_fail_empty", "main_exit_fail_invalid"}
    /\ program_exit(RC_FAIL)
    /\ UNCHANGED <<source, caller, rpi_info, rpi_serial_number, rpi_revision,
                   eui, ret, stdout, uncaught, gen_ran, interrupted>>

MainExitOk ==
    /\ pc = "main_exit_ok"
    /\ program_exit(RC_OK)
    /\ UNCHANGED <<source, caller, rpi_info, rpi_serial_number, rpi_revision,
                   eui, ret, stdout, uncaught, gen_ran, interrupted>>

\* a KeyboardInterrupt raised while file_read_text is inside its try block
InterruptRead ==
    /\ pc = "main_read"
    /\ interrupted = ""
    /\ interrupted' = pc
    /\ LET r == file_read_text("KeyboardInterrupt", source.content)
       IN  IF r.exc # ""
           THEN Propagate(r.exc) /\ UNCHANGED rpi_info
           ELSE /\ rpi_info' = r.val
                /\ pc' = "main_check"
                /\ UNCHANGED <<uncaught, exit_status>>
    /\ UNCHANGED <<source, caller, rpi_serial_number, rpi_revision, eui, ret,
                   stdout, gen_ran>>

InterruptiblePcs ==
    {"main_check", "gen_serial", "gen_revision", "gen_check", "gen_normalize",
     "gen_assemble", "gen_final", "main_compare", "main_exit_fail_empty",
     "main_exit_fail_invalid", "main_exit_ok"}

\* a KeyboardInterrupt raised in main, or in what it calls, outside the read
Interrupt ==
    /\ pc \in InterruptiblePcs
    /\ caller = "main"
    /\ interrupted = ""
    /\ interrupted' = pc
    /\ Propagate("KeyboardInterrupt")
    /\ UNCHANGED <<source, caller, rpi_info, rpi_serial_number, rpi_revision,
                   eui, ret, stdout, gen_ran>>

\* except KeyboardInterrupt: program_exit(RC.OK)
KbdHandler ==
    /\ pc = "kbd_handler"
    /\ program_exit(RC_OK)
    /\ UNCHANGED <<source, caller, rpi_info, rpi_serial_number, rpi_revision,
                   eui, ret, stdout, uncaught, gen_ran, interrupted>>

-----------------------------------------------------------------------------
(* Specifications *)

Locals ==
    /\ rpi_serial_number = <<>>
    /\ rpi_revision = <<>>
    /\ eui = <<>>
    /\ ret = <<>>
    /\ stdout = <<>>
    /\ exit_status = <<>>
    /\ uncaught = ""
    /\ interrupted = ""

\* the script is started
Init ==
    /\ source \in Sources
    /\ pc = "main_read"
    /\ caller = "main"
    /\ rpi_info = <<>>
    /\ gen_ran = FALSE
    /\ Locals

Next ==
    \/ MainRead
    \/ MainCheckInfo
    \/ GenNext
    \/ MainCompare
    \/ MainExitFail
    \/ MainExitOk

Spec == Init /\ [][Next]_vars

\* the script is started and may be interrupted from the keyboard
NextInt ==
    \/ Next
    \/ InterruptRead
    \/ Interrupt
    \/ KbdHandler

SpecInt == Init /\ [][NextInt]_vars

\* generate_eui is called on a text
InitEui ==
    /\ source = [error |-> "", content |-> <<>>]
    /\ pc = "gen_serial"
    /\ caller = "direct"
    /\ rpi_info \in Texts
    /\ gen_ran = TRUE
    /\ Locals

SpecEui == InitEui /\ [][GenNext]_vars

-----------------------------------------------------------------------------
(* Vocabulary of the properties *)

HexUpper ==
    {"0","1","2","3","4","5","6","7","8","9","A","B","C","D","E","F"}

\* a well-formed Eui: 16 characters, each an uppercase hexadecimal digit
WellFormedEui(e) ==
    /\ Len(e) = 16
    /\ \A i \in 1..Len(e) : e[i] \in HexUpper

\* the last 8 characters of s
Last8(s) == [i \in 1..8 |-> s[Len(s) - 8 + i]]

\* what the two extractions give on the text in rpi_info
Serial == get_rpi_serial_number(rpi_info)
Revision == get_rpi_revision(rpi_info)

\* generate_eui has extracted a value of a length the validation rejects
\* (the Serial is extracted first, the Revision only once that returned)
BadLengths ==
    /\ Serial.exc = ""
    /\ \/ Len(Serial.val) \notin {8, 16}
       \/ Revision.exc = "" /\ Len(Revision.val) # 6

\* a line that holds the label but not the separator ": "
MalformedLine(line) ==
    /\ Contains(line, RPI_SERIAL_PATTERN) \/ Contains(line, RPI_REVISION_PATTERN)
    /\ ~Contains(line, SEPARATOR)

HasMalformedLine(text) ==
    \E i \in 1..Len(splitlines(text)) : MalformedLine(splitlines(text)[i])

\* the separator ": " stands at position a of line
SeparatorAt(line, a) == a < Len(line) /\ line[a] = ":" /\ line[a + 1] = " "

\* everything after the first ": " of line
AfterFirstSeparator(line) ==
    LET A == {a \in 1..Len(line) : SeparatorAt(line, a)}
    IN  IF A = {} THEN <<>>
        ELSE LET first == CHOOSE a \in A : \A b \in A : a <= b
             IN  SubSeq(line, first + 2, Len(line))

\* everything after the first ": " on the last line of text that contains
\* pattern, the empty string when no line contains it
LastMatchValue(text, pattern) ==
    LET ls == splitlines(text)
        M == {i \in 1..Len(ls) : Contains(ls[i], pattern)}
    IN  IF M = {} THEN <<>>
        ELSE AfterFirstSeparator(ls[CHOOSE i \in M : \A k \in M : k <= i])

-----------------------------------------------------------------------------
(* Properties *)

\* C1: when the extracted Serial has length 8 or 16 and the extracted
\* Revision has length 6, generate_eui returns the uppercased concatenation
\* of "02", the Revision and the last 8 characters of the Serial.
C1_EuiIsPrefixRevisionSerial ==
    (/\ pc = "returned"
     /\ Serial.exc = "" /\ Len(Serial.val) \in {8, 16}
     /\ Revision.exc = "" /\ Len(Revision.val) = 6)
    => ret = upper(<<"0", "2">> \o Revision.val \o Last8(Serial.val))

\* a 16-character Serial whose two halves differ has been encoded
C1_Witness ==
    /\ pc = "returned"
    /\ Serial.exc = "" /\ Len(Serial.val) = 16
    /\ SubSeq(Serial.val, 1, 8) # SubSeq(Serial.val, 9, 16)
    /\ Revision.exc = "" /\ Len(Revision.val) = 6
    /\ ret = <<"0","2","A","0","3","1","4","0","9","0","A","B","C","D","E","F">>

\* C2: the value returned by generate_eui is the sentinel or a well-formed
\* Eui (exactly 16 characters, each an uppercase hexadecimal digit).
C2_ReturnsSentinelOrWellFormedEui ==
    pc = "returned" => (ret = INVALID_EUI \/ WellFormedEui(ret))

\* C3: generate_eui returns the sentinel whenever the extracted Serial length
\* is neither 8 nor 16 or the extracted Revision length is not 6.
C3_BadLengthsReturnSentinel ==
    (pc \in {"returned", "raised"} /\ BadLengths)
    => (pc = "returned" /\ ret = INVALID_EUI)

\* C4: for every text each extraction returns what follows the first ": " on
\* the last line containing its label, and "" when no line contains it.
C4_ExtractionReturnsLastMatch ==
    /\ pc # "raised"
    /\ pc = "gen_revision"
         => rpi_serial_number = LastMatchValue(rpi_info, RPI_SERIAL_PATTERN)
    /\ pc = "gen_check"
         => rpi_revision = LastMatchValue(rpi_info, RPI_REVISION_PATTERN)

\* C5: no run ends with an uncaught error; a source with a malformed line is
\* treated as a missing field: the sentinel is printed and the status is a
\* failure.
C5_NothingCrossesTheBoundary ==
    pc = "terminated"
    => /\ uncaught = ""
       /\ HasMalformedLine(source.content)
            => (stdout = <<INVALID_EUI>> /\ exit_status # <<RC_OK>>)

\* C6: every run ends having printed exactly one line, either a well-formed
\* Eui with status 0 or the sentinel with a nonzero status.
C6_OneLineTwoTerminalStates ==
    pc = "terminated"
    => /\ Len(stdout) = 1
       /\ \/ /\ stdout[1] # INVALID_EUI
             /\ WellFormedEui(stdout[1])
             /\ exit_status = <<RC_OK>>
          \/ /\ stdout[1] = INVALID_EUI
             /\ exit_status # <<RC_OK>>

\* C7: when the source cannot be opened or read, file_read_text returns ""
\* without raising, and main prints the sentinel and ends with a failure
\* status without running generate_eui.
C7_UnreadableSourceFailsSoft ==
    source.error # ""
    => /\ uncaught = ""
       /\ ~gen_ran
       /\ rpi_info = <<>>
       /\ pc \in {"main_read", "main_check", "main_exit_fail_empty", "terminated"}
       /\ pc \in {"main_exit_fail_empty", "terminated"} => stdout = <<INVALID_EUI>>
       /\ pc = "terminated" => (exit_status # <<>> /\ exit_status # <<RC_OK>>)

\* a run on a source that could not be read for lack of permission has ended
C7_Witness ==
    /\ source.error = "PermissionError"
    /\ pc = "terminated"
    /\ stdout = <<INVALID_EUI>>
    /\ exit_status = <<255>>

\* C8: once a KeyboardInterrupt has been delivered inside main (in the file
\* read included) the run is in the interrupt handler or has ended with
\* status 0; file_read_text does not turn it into the empty-content path.
C8_InterruptEndsWithSuccess ==
    interrupted # ""
    => \/ pc = "kbd_handler"
       \/ pc = "terminated" /\ exit_status = <<RC_OK>>

\* a run interrupted during the file read has ended
C8_Witness ==
    /\ interrupted = "main_read"
    /\ pc = "terminated"
    /\ exit_status = <<0>>
    /\ stdout = <<>>

\* C9: at the final-length check the assembled string has 16 characters, and
\* the uppercased string returned after it has 16 characters too.
C9_FinalCheckNeverFails ==
    /\ pc = "gen_final" => Len(eui) = EUI_CHARS_LENGTH
    /\ (pc = "returned" /\ eui # <<>>) => Len(ret) = EUI_CHARS_LENGTH

\* C10: generate_eui returns the sentinel if and only if a field has a
\* rejected length, main reports failure at its comparison only then, and
\* success never then.
C10_SentinelIffBadLengths ==
    /\ (pc = "main_compare" \/ (pc = "terminated" /\ gen_ran))
         => ((ret = INVALID_EUI) <=> BadLengths)
    /\ (pc = "terminated" /\ gen_ran /\ exit_status = <<RC_OK>>) => ~BadLengths

-----------------------------------------------------------------------------
(* What the code does keep of C3, C4, C6, C9 and C10 *)

\* whenever generate_eui returns, it returns the sentinel exactly when a
\* field has a rejected length, and a returned Eui begins with "02"
ReturnedSentinelIffBadLengths ==
    pc = "returned"
    => /\ (ret = INVALID_EUI) <=> BadLengths
       /\ ret # INVALID_EUI => SubSeq(ret, 1, 2) = <<"0", "2">>

\* whenever an extraction returns, it returns the value of the last
\* matching line
ReturnedExtractionIsLastMatch ==
    /\ pc = "gen_revision"
         => rpi_serial_number = LastMatchValue(rpi_info, RPI_SERIAL_PATTERN)
    /\ pc = "gen_check"
         => rpi_revision = LastMatchValue(rpi_info, RPI_REVISION_PATTERN)

\* the sentinel branch of the final-length check is never taken
FinalCheckPasses == pc = "gen_final" => Len(eui) = EUI_CHARS_LENGTH

\* at most one line is printed, status 0 goes with a printed Eui and the
\* status of RC.FAIL with the printed sentinel
PrintedLineMatchesStatus ==
    /\ Len(stdout) <= 1
    /\ (pc = "terminated" /\ uncaught = "")
         => /\ Len(stdout) = 1
            /\ (stdout[1] = INVALID_EUI) <=> (exit_status # <<RC_OK>>)

=============================================================================
